---------------------------- MODULE Spec2Model ----------------------------
(***************************************************************************)
(* A model of the two programs of the repository:                          *)
(*                                                                         *)
(*   - FitnessQuestionnaire (src/unnamed/part_000): collectBaseline,       *)
(*     collectGoals, generateMissions, prioritizeMissions, displayResults, *)
(*     run;                                                                *)
(*   - HealthVitalityApp (src/fitness_goal_setter.ts): createUser,         *)
(*     generateDailyMissions, completeMission, checkLevelUp,               *)
(*     checkAchievements, getUserDashboard, completeMissionAPI.            *)
(*                                                                         *)
(* Times are kept in tenths of a minute, so that timeAvailable * 0.7 and   *)
(* timeAvailable * 0.6 are integers for every whole number of minutes.     *)
(***************************************************************************)
EXTENDS Integers, Sequences, FiniteSets

VARIABLES
    pc,            \* FitnessQuestionnaire.run: the statement run() is at
    baseline,      \* FitnessQuestionnaire.baseline
    goals,         \* FitnessQuestionnaire.goals
    missions,      \* generateMissions: the list handed to prioritizeMissions
    plan,          \* generateMissions: the list it returns to displayResults
    rl,            \* FitnessQuestionnaire.rl: "open" until rl.close()
    logged,        \* what run has written last: the report or the error
    collector,     \* collectBaseline, collectGoals: the question being
                   \* asked and what the last answer has assigned
    users,         \* HealthVitalityApp.users: userId -> progress record
    achievements,  \* HealthVitalityApp.achievements
    lastCall,      \* the last HealthVitalityApp call and what it returned
    profiles,      \* HealthVitalityApp.users: userId -> baseline and goals
    todaysMissions, \* the list generateDailyMissions returned last
    microtasks     \* the promises of the async methods not yet delivered

vars ==
    <<pc, baseline, goals, missions, plan, rl, logged, collector, users,
      achievements, lastCall, profiles, todaysMissions, microtasks>>

questionnaireVars ==
    <<pc, baseline, goals, missions, plan, rl, logged, collector>>

appVars ==
    <<users, achievements, lastCall, profiles, todaysMissions, microtasks>>

-----------------------------------------------------------------------------
(* Bounds of the model *)

\* timeAvailable is drawn from 0, TimeStep, ..., MaxTimeSteps * TimeStep minutes
TimeStep == 15

MaxTimeSteps == 5

\* the 1-10 self-assessment and target levels are drawn from 1..MaxLevel
MaxLevel == 2

\* createUser draws its userId from 1..MaxUsers
MaxUsers == 2

\* completeMission draws its missionId from 1..NumMissionIds
NumMissionIds == 2

\* completeMission is taken while the store holds fewer than MaxCompleted
\* completed missions in all
MaxCompleted == 3

\* an async method is called while fewer than MaxPending promises wait to
\* be delivered
MaxPending == 2

\* an answer typed at a prompt has at most MaxAnswerLen characters
MaxAnswerLen == 2

\* a question is answered wrongly at most MaxInvalid times in a row
MaxInvalid == 2

\* the stored users generateDailyMissions is applied to have a level in
\* 1..MaxDailyLevel
MaxDailyLevel == 25

\* the stored records completeMission is applied to as a function of the
\* record: level in 1..MaxRecordLevel, xp in 0, 10, ..., 10 * MaxRecordXpTens
\* (every reward of the program is a multiple of 10)
MaxRecordLevel == 2

MaxRecordXpTens == 12

-----------------------------------------------------------------------------
(* FitnessQuestionnaire: data *)

None == "none"

Experiences == {"beginner", "intermediate", "advanced"}

PrimaryGoals ==
    {"weight_loss", "muscle_gain", "strength", "endurance", "flexibility",
     "general_fitness"}

Tenths(minutes) == 10 * minutes

Min(a, b) == IF a <= b THEN a ELSE b

Includes(seq, x) == \E i \in 1..Len(seq) : seq[i] = x

\* collectBaseline: the equipment list after the two y/n answers
EquipmentOf(hasGym, hasHome) ==
    LET e1 == IF hasGym THEN <<"gym_access">> ELSE <<>>
        e2 == IF hasHome THEN Append(e1, "home_equipment") ELSE e1
    IN  IF Len(e2) = 0 THEN <<"bodyweight_only">> ELSE e2

\* the baseline and goals of the worked example of spec.md, section 8
ExampleBaseline ==
    [timeAvailable |-> 30, fitnessExperience |-> "beginner",
     currentStrengthLevel |-> 2, currentEnduranceLevel |-> 3,
     currentFlexibilityLevel |-> 5, equipment |-> <<"bodyweight_only">>]

ExampleGoals ==
    [primaryGoal |-> "weight_loss", targetStrengthLevel |-> 6,
     targetEnduranceLevel |-> 7, targetFlexibilityLevel |-> 5]

TimeInputs == {k * TimeStep : k \in 0..MaxTimeSteps}

LevelInputs == 1..MaxLevel

\* the baselines collectBaseline can leave in this.baseline (the fields
\* generateMissions reads), within the bounds, and the worked example
BaselineInputs ==
    {[timeAvailable |-> t, fitnessExperience |-> x,
      currentStrengthLevel |-> s, currentEnduranceLevel |-> e,
      currentFlexibilityLevel |-> f, equipment |-> EquipmentOf(gym, home)] :
        t \in TimeInputs, x \in Experiences, s \in LevelInputs,
        e \in LevelInputs, f \in LevelInputs, gym \in BOOLEAN,
        home \in BOOLEAN}
    \cup {ExampleBaseline}

GoalsInputs ==
    {[primaryGoal |-> p, targetStrengthLevel |-> s,
      targetEnduranceLevel |-> e, targetFlexibilityLevel |-> f] :
        p \in PrimaryGoals, s \in LevelInputs, e \in LevelInputs,
        f \in LevelInputs}
    \cup {ExampleGoals}

-----------------------------------------------------------------------------
(* FitnessQuestionnaire: generateMissions *)

getStrengthInstructions(experience, equipment) ==
    IF Includes(equipment, "gym_access")
    THEN IF experience = "beginner" THEN "gym_beginner" ELSE "gym_compound"
    ELSE "home_circuit"

getCardioInstructions(enduranceLevel, duration) ==
    IF enduranceLevel < 4
    THEN <<"beginner_cardio", duration>>
    ELSE <<"cardio_session", duration>>

StrengthMission(b) ==
    IF Includes(b.equipment, "gym_access")
       \/ Includes(b.equipment, "home_equipment")
    THEN [id |-> "strength_001", category |-> "strength",
          difficulty |->
              IF b.fitnessExperience = "beginner" THEN "easy" ELSE "medium",
          estimatedTime |-> Min(7 * b.timeAvailable, Tenths(45)),
          equipment |->
              IF Includes(b.equipment, "gym_access")
              THEN <<"gym_access">> ELSE <<"home_equipment">>,
          instructions |->
              getStrengthInstructions(b.fitnessExperience, b.equipment)]
    ELSE [id |-> "strength_002", category |-> "strength",
          difficulty |-> "easy", estimatedTime |-> Tenths(20),
          equipment |-> <<"bodyweight_only">>,
          instructions |-> "bodyweight_circuit"]

\* mutant: the cardio mission takes the strength mission's share of the time
CardioMissionSeventy(b) ==
    LET cardioTime == Min(7 * b.timeAvailable, Tenths(30))
    IN  [id |-> "cardio_001", category |-> "cardio",
         difficulty |->
             IF b.currentEnduranceLevel < 5 THEN "easy" ELSE "medium",
         estimatedTime |-> cardioTime,
         equipment |-> <<"bodyweight_only">>,
         instructions |->
             getCardioInstructions(b.currentEnduranceLevel, cardioTime)]

CardioMission(b) ==
    LET cardioTime == Min(6 * b.timeAvailable, Tenths(30))
    IN  [id |-> "cardio_001", category |-> "cardio",
         difficulty |->
             IF b.currentEnduranceLevel < 5 THEN "easy" ELSE "medium",
         estimatedTime |-> cardioTime,
         equipment |-> <<"bodyweight_only">>,
         instructions |->
             getCardioInstructions(b.currentEnduranceLevel, cardioTime)]

FlexibilityMission ==
    [id |-> "flexibility_001", category |-> "flexibility",
     difficulty |-> "easy", estimatedTime |-> Tenths(15),
     equipment |-> <<"bodyweight_only">>, instructions |-> "stretches"]

RecoveryMission ==
    [id |-> "recovery_001", category |-> "recovery",
     difficulty |-> "easy", estimatedTime |-> Tenths(10),
     equipment |-> <<"bodyweight_only">>, instructions |-> "active_recovery"]

StrengthRule(b, g) == g.targetStrengthLevel - b.currentStrengthLevel > 0

CardioRule(b, g) ==
    \/ g.targetEnduranceLevel - b.currentEnduranceLevel > 0
    \/ g.primaryGoal = "weight_loss"

\* mutant: the flexibility rule fires on a gap of zero as well
FlexibilityRuleAtZeroGap(b, g) ==
    g.targetFlexibilityLevel - b.currentFlexibilityLevel >= 0

FlexibilityRule(b, g) ==
    g.targetFlexibilityLevel - b.currentFlexibilityLevel > 0

RecoveryRule(b, queued) ==
    b.fitnessExperience = "beginner" \/ Len(queued) > 1

\* the list generateMissions has built when it calls prioritizeMissions
CandidateMissions(b, g) ==
    LET m1 == IF StrengthRule(b, g) THEN <<StrengthMission(b)>> ELSE <<>>
        m2 == IF CardioRule(b, g) THEN Append(m1, CardioMission(b)) ELSE m1
        m3 == IF FlexibilityRule(b, g)
              THEN Append(m2, FlexibilityMission) ELSE m2
    IN  IF RecoveryRule(b, m3) THEN Append(m3, RecoveryMission) ELSE m3

-----------------------------------------------------------------------------
(* FitnessQuestionnaire: prioritizeMissions *)

RECURSIVE SumTime(_)
SumTime(ms) ==
    IF ms = <<>> THEN 0 ELSE Head(ms).estimatedTime + SumTime(Tail(ms))

\* mutant: weight_loss is given the muscle_gain order
priorityOrderWeightLossAsMuscleGain ==
    [weight_loss     |-> <<"strength", "recovery", "flexibility", "cardio">>,
     muscle_gain     |-> <<"strength", "recovery", "flexibility", "cardio">>,
     strength        |-> <<"strength", "recovery", "flexibility", "cardio">>,
     endurance       |-> <<"cardio", "flexibility", "recovery", "strength">>,
     flexibility     |-> <<"flexibility", "recovery", "strength", "cardio">>,
     general_fitness |-> <<"strength", "cardio", "flexibility", "recovery">>]

priorityOrder ==
    [weight_loss     |-> <<"cardio", "strength", "recovery", "flexibility">>,
     muscle_gain     |-> <<"strength", "recovery", "flexibility", "cardio">>,
     strength        |-> <<"strength", "recovery", "flexibility", "cardio">>,
     endurance       |-> <<"cardio", "flexibility", "recovery", "strength">>,
     flexibility     |-> <<"flexibility", "recovery", "strength", "cardio">>,
     general_fitness |-> <<"strength", "cardio", "flexibility", "recovery">>]

\* priorityOrder[goals.primaryGoal] || priorityOrder['general_fitness']
OrderFor(primaryGoal) ==
    IF primaryGoal \in DOMAIN priorityOrder
    THEN priorityOrder[primaryGoal]
    ELSE priorityOrder["general_fitness"]

\* Array.prototype.indexOf, 0-based, -1 when absent
IndexOf(seq, x) ==
    IF Includes(seq, x)
    THEN (CHOOSE i \in 1..Len(seq) :
              seq[i] = x /\ \A j \in 1..(i - 1) : seq[j] # x) - 1
    ELSE -1

\* missions.sort((a, b) => order.indexOf(a.category) - order.indexOf(b.category)):
\* a stable sort on the integer key indexOf(category), which lies in -1..3
RECURSIVE SortFrom(_, _, _)
SortFrom(ms, order, rank) ==
    IF rank > Len(order) - 1 THEN <<>>
    ELSE SelectSeq(ms, LAMBDA m : IndexOf(order, m.category) = rank)
         \o SortFrom(ms, order, rank + 1)

SortByPriority(ms, order) == SortFrom(ms, order, -1)

\* mutant: each mission is tested alone against the budget, the running
\* total is never added up
KeepFittingAlone(ms, currentTime, budget) ==
    SelectSeq(ms, LAMBDA m : currentTime + m.estimatedTime <= budget)

\* mutant: the scan stops at the first mission that does not fit
RECURSIVE KeepFittingPrefix(_, _, _)
KeepFittingPrefix(ms, currentTime, budget) ==
    IF ms = <<>> THEN <<>>
    ELSE IF currentTime + Head(ms).estimatedTime <= budget
         THEN <<Head(ms)>>
              \o KeepFittingPrefix(Tail(ms),
                                   currentTime + Head(ms).estimatedTime, budget)
         ELSE <<>>

\* missions.filter(...) with the running total currentTime: a mission that
\* does not fit is left out and the scan goes on with the next one
RECURSIVE KeepFitting(_, _, _)
KeepFitting(ms, currentTime, budget) ==
    IF ms = <<>> THEN <<>>
    ELSE IF currentTime + Head(ms).estimatedTime <= budget
         THEN <<Head(ms)>>
              \o KeepFitting(Tail(ms), currentTime + Head(ms).estimatedTime,
                             budget)
         ELSE KeepFitting(Tail(ms), currentTime, budget)

\* mutant: a list that fills the budget exactly counts as over budget
OverBudgetInclusive(ms, timeAvailable) == SumTime(ms) >= Tenths(timeAvailable)

OverBudget(ms, timeAvailable) == SumTime(ms) > Tenths(timeAvailable)

prioritizeMissions(ms, timeAvailable, primaryGoal) ==
    IF OverBudget(ms, timeAvailable)
    THEN KeepFitting(SortByPriority(ms, OrderFor(primaryGoal)), 0,
                     Tenths(timeAvailable))
    ELSE ms

generateMissions(b, g) ==
    prioritizeMissions(CandidateMissions(b, g), b.timeAvailable, g.primaryGoal)

-----------------------------------------------------------------------------
(* HealthVitalityApp: data *)

UserIds == 1..MaxUsers

\* a userId createUser never hands out
UnknownUserId == 0

MissionIds == 1..NumMissionIds

\* initializeAchievements; unlockedAt is None until checkAchievements
\* stamps it
initializeAchievements ==
    <<[id |-> "first_mission", xpReward |-> 50, unlockedAt |-> None,
       requirements |-> <<[type |-> "total_missions", value |-> 1,
                           category |-> None]>>],
      [id |-> "week_warrior", xpReward |-> 200, unlockedAt |-> None,
       requirements |-> <<[type |-> "streak", value |-> 7,
                           category |-> "daily"]>>],
      [id |-> "fitness_fanatic", xpReward |-> 300, unlockedAt |-> None,
       requirements |-> <<[type |-> "category_progress", value |-> 20,
                           category |-> "fitness"]>>],
      [id |-> "level_10", xpReward |-> 500, unlockedAt |-> None,
       requirements |-> <<[type |-> "goal_reached", value |-> 10,
                           category |-> None]>>]>>

\* createUser: the progress record of a new user
NewProgress ==
    [level |-> 1, xp |-> 0, coins |-> 100, streaks |-> <<>>,
     completedMissions |-> <<>>, unlockedAchievements |-> <<>>]

xpGained == 20

coinsGained == 10

-----------------------------------------------------------------------------
(* HealthVitalityApp: processSurveyResponses, processGoals *)

\* the usage example's responses; a survey is the map from questionId to
\* value that processSurveyResponses and processGoals build
exampleResponses ==
    [baseline_energy |-> 4, baseline_fitness |-> 3, current_weight |-> 180,
     height |-> 70, goal_energy_3m |-> 7, goal_fitness_3m |-> 6,
     goal_weight_3m |-> 170]

\* the surveys createUser is called with
SurveyInputs == {exampleResponses}

\* surveys with each answer that generateDailyMissions depends on below,
\* at and above the thresholds 7 and 8 of its rules; the 3-month goals for
\* energy and fitness are 7
DailySurveyInputs ==
    {[baseline_energy |-> e, baseline_fitness |-> f, goal_energy_3m |-> 7,
      goal_fitness_3m |-> 7, baseline_nutrition |-> n, baseline_sleep |-> sl,
      stress_level |-> st] :
        e \in {6, 7, 8}, f \in {6, 7}, n \in {6, 7}, sl \in {7, 8},
        st \in {6, 7}}
    \cup {exampleResponses}

\* Number(responseMap.get(questionId)) || default, for numeric values
NumberOr(responseMap, questionId, default) ==
    IF questionId \in DOMAIN responseMap /\ responseMap[questionId] # 0
    THEN responseMap[questionId]
    ELSE default

\* the fields of UserBaseline that generateDailyMissions reads
processSurveyResponses(responseMap) ==
    [energyLevel |-> NumberOr(responseMap, "baseline_energy", 1),
     physicalFitness |-> NumberOr(responseMap, "baseline_fitness", 1),
     nutritionQuality |-> NumberOr(responseMap, "baseline_nutrition", 1),
     sleepQuality |-> NumberOr(responseMap, "baseline_sleep", 1),
     stressManagement |-> NumberOr(responseMap, "stress_level", 1)]

\* the fields of UserGoals that generateDailyMissions reads
processGoals(responseMap) ==
    [energyLevel |->
         [threeMonths |-> NumberOr(responseMap, "goal_energy_3m", 5)],
     physicalFitness |->
         [threeMonths |-> NumberOr(responseMap, "goal_fitness_3m", 5)]]

\* createUser: the baseline and goals of a new user
NewProfile(responseMap) ==
    [baseline |-> processSurveyResponses(responseMap),
     goals |-> processGoals(responseMap)]

-----------------------------------------------------------------------------
(* HealthVitalityApp: generateDailyMissions *)

\* a daily mission is written as the prefix of its id: "energy", "fitness",
\* "nutrition", "sleep", "stress" or "variety"
missionCount(level) == Min(3 + (level \div 5), 7)

\* the five goal rules, in the order the code evaluates them
GoalRuleMissions(profile) ==
    (IF profile.goals.energyLevel.threeMonths > profile.baseline.energyLevel
     THEN <<"energy">> ELSE <<>>)
    \o (IF profile.goals.physicalFitness.threeMonths
              > profile.baseline.physicalFitness
        THEN <<"fitness">> ELSE <<>>)
    \o (IF profile.baseline.nutritionQuality < 7
        THEN <<"nutrition">> ELSE <<>>)
    \o (IF profile.baseline.sleepQuality < 8 THEN <<"sleep">> ELSE <<>>)
    \o (IF profile.baseline.stressManagement < 7 THEN <<"stress">> ELSE <<>>)

\* while (missions.length < missionCount) push a variety mission
RECURSIVE FillVariety(_, _)
FillVariety(ms, count) ==
    IF Len(ms) < count THEN FillVariety(Append(ms, "variety"), count) ELSE ms

\* mutant: the list is returned whole
SliceNothing(ms, count) == ms

\* missions.slice(0, missionCount)
Slice(ms, count) == SubSeq(ms, 1, Min(Len(ms), count))

\* generateDailyMissions of a known user, from progress.level and the
\* user's baseline and goals
DailyMissionsFor(level, profile) ==
    Slice(FillVariety(GoalRuleMissions(profile), missionCount(level)),
          missionCount(level))

-----------------------------------------------------------------------------
(* HealthVitalityApp: completeMission, checkLevelUp, checkAchievements *)

\* user.progress.streaks[requirement.category || 'any'] || 0
StreakOf(p, category) ==
    LET key == IF category = None THEN "any" ELSE category
    IN  IF key \in DOMAIN p.streaks THEN p.streaks[key] ELSE 0

\* mutant: the reward is the one an easy mission was generated with
AddRewardOfEasyMission(p, missionId) ==
    [p EXCEPT !.xp = @ + 8,
              !.coins = @ + 4,
              !.completedMissions = Append(@, missionId)]

\* mutant: a completion also counts a day of the daily streak
AddRewardAndStreak(p, missionId) ==
    [p EXCEPT !.xp = @ + xpGained,
              !.coins = @ + coinsGained,
              !.completedMissions = Append(@, missionId),
              !.streaks = [category \in {"daily"} |->
                              StreakOf(p, "daily") + 7]]

\* completeMission, up to the level-up check
AddReward(p, missionId) ==
    [p EXCEPT !.xp = @ + xpGained,
              !.coins = @ + coinsGained,
              !.completedMissions = Append(@, missionId)]

\* mutant: the level-up check repeats while xp covers the next level
RECURSIVE checkLevelUpLoop(_)
checkLevelUpLoop(p) ==
    IF p.xp >= p.level * 100
    THEN checkLevelUpLoop([p EXCEPT !.level = @ + 1,
                                    !.coins = @ + (p.level + 1) * 10])
    ELSE p

\* mutant: the bonus is computed from the level before the increment
checkLevelUpOldLevelBonus(p) ==
    IF p.xp >= p.level * 100
    THEN [p EXCEPT !.level = @ + 1, !.coins = @ + p.level * 10]
    ELSE p

checkLevelUp(p) ==
    IF p.xp >= p.level * 100
    THEN [p EXCEPT !.level = @ + 1, !.coins = @ + (p.level + 1) * 10]
    ELSE p

\* mutant: a requirement of a kind without a case is not met
RequirementMetWhenChecked(p, requirement) ==
    CASE requirement.type = "total_missions" ->
             ~(Len(p.completedMissions) < requirement.value)
      [] requirement.type = "streak" ->
             ~(StreakOf(p, requirement.category) < requirement.value)
      [] OTHER -> FALSE

\* one pass of the switch: the kinds without a case leave requirementsMet
\* as it is
RequirementMet(p, requirement) ==
    CASE requirement.type = "total_missions" ->
             ~(Len(p.completedMissions) < requirement.value)
      [] requirement.type = "streak" ->
             ~(StreakOf(p, requirement.category) < requirement.value)
      [] OTHER -> TRUE

requirementsMet(p, achievement) ==
    \A i \in 1..Len(achievement.requirements) :
        RequirementMet(p, achievement.requirements[i])

\* the loop of checkAchievements over this.achievements from position i
RECURSIVE UnlockFrom(_, _, _)
UnlockFrom(p, achs, i) ==
    IF i > Len(achs) THEN p
    ELSE IF Includes(p.unlockedAchievements, achs[i].id)
         THEN UnlockFrom(p, achs, i + 1)
         ELSE IF requirementsMet(p, achs[i])
              THEN UnlockFrom(
                       [p EXCEPT !.unlockedAchievements = Append(@, achs[i].id),
                                 !.xp = @ + achs[i].xpReward],
                       achs, i + 1)
              ELSE UnlockFrom(p, achs, i + 1)

\* mutant: the loop without the already-unlocked check
RECURSIVE UnlockFromAgain(_, _, _)
UnlockFromAgain(p, achs, i) ==
    IF i > Len(achs) THEN p
    ELSE IF requirementsMet(p, achs[i])
         THEN UnlockFromAgain(
                  [p EXCEPT !.unlockedAchievements = Append(@, achs[i].id),
                            !.xp = @ + achs[i].xpReward],
                  achs, i + 1)
         ELSE UnlockFromAgain(p, achs, i + 1)

\* mutant: every call unlocks again what it unlocked before
checkAchievementsAgain(p, achs) == UnlockFromAgain(p, achs, 1)

\* checkAchievements: what it leaves in user.progress
checkAchievements(p, achs) == UnlockFrom(p, achs, 1)

\* checkAchievements: what it leaves in this.achievements, given the
\* progress before and after it
StampUnlocked(achs, before, after) ==
    [i \in 1..Len(achs) |->
        IF /\ Includes(after.unlockedAchievements, achs[i].id)
           /\ ~Includes(before.unlockedAchievements, achs[i].id)
        THEN [achs[i] EXCEPT !.unlockedAt = "Date"]
        ELSE achs[i]]

\* mutant: the achievement check runs before the level-up check
ProgressAfterAchievementsFirst(p, missionId, achs) ==
    checkLevelUp(checkAchievements(AddReward(p, missionId), achs))

\* completeMission: what it leaves in user.progress of a known user
ProgressAfter(p, missionId, achs) ==
    checkAchievements(checkLevelUp(AddReward(p, missionId)), achs)

TotalCompleted ==
    LET count[n \in 0..MaxUsers] ==
            IF n = 0 THEN 0
            ELSE count[n - 1]
                 + (IF n \in DOMAIN users
                    THEN Len(users[n].completedMissions) ELSE 0)
    IN  count[MaxUsers]

Call(op, userId, missionId, result) ==
    [op |-> op, userId |-> userId, missionId |-> missionId, result |-> result]

\* no call has been made; createUser takes no missionId, written 0
NoCall == Call("none", 0, 0, FALSE)

createUser(userId, responses) ==
    /\ userId \notin DOMAIN users
    /\ users' = [u \in DOMAIN users \cup {userId} |->
                    IF u = userId THEN NewProgress ELSE users[u]]
    /\ profiles' = [u \in DOMAIN users \cup {userId} |->
                       IF u = userId THEN NewProfile(responses)
                       ELSE profiles[u]]
    /\ lastCall' = Call("createUser", userId, 0, TRUE)
    /\ UNCHANGED <<achievements, todaysMissions, microtasks,
                   questionnaireVars>>

\* generateDailyMissions: the list it returns
generateDailyMissions(userId) ==
    IF userId \notin DOMAIN users THEN <<>>
    ELSE DailyMissionsFor(users[userId].level, profiles[userId])

\* mutant: every user of the store holds the one progress record
completeMissionOnSharedProgress(userId, missionId) ==
    \/ /\ userId \notin DOMAIN users
       /\ lastCall' = Call("completeMission", userId, missionId, FALSE)
       /\ UNCHANGED <<users, achievements, profiles, todaysMissions,
                      questionnaireVars>>
    \/ /\ userId \in DOMAIN users
       /\ TotalCompleted < MaxCompleted
       /\ LET rewarded == checkLevelUp(AddReward(users[userId], missionId))
              after == ProgressAfter(users[userId], missionId, achievements)
          IN  /\ users' = [u \in DOMAIN users |-> after]
              /\ achievements' = StampUnlocked(achievements, rewarded, after)
       /\ lastCall' = Call("completeMission", userId, missionId, TRUE)
       /\ UNCHANGED <<profiles, todaysMissions, questionnaireVars>>

\* mutant: a missionId already in the completed log is refused
completeMissionOncePerMission(userId, missionId) ==
    \/ /\ \/ userId \notin DOMAIN users
          \/ /\ userId \in DOMAIN users
             /\ Includes(users[userId].completedMissions, missionId)
       /\ lastCall' = Call("completeMission", userId, missionId, FALSE)
       /\ UNCHANGED <<users, achievements, profiles, todaysMissions,
                      questionnaireVars>>
    \/ /\ userId \in DOMAIN users
       /\ ~Includes(users[userId].completedMissions, missionId)
       /\ TotalCompleted < MaxCompleted
       /\ LET rewarded == checkLevelUp(AddReward(users[userId], missionId))
              after == ProgressAfter(users[userId], missionId, achievements)
          IN  /\ users' = [users EXCEPT ![userId] = after]
              /\ achievements' = StampUnlocked(achievements, rewarded, after)
       /\ lastCall' = Call("completeMission", userId, missionId, TRUE)
       /\ UNCHANGED <<profiles, todaysMissions, questionnaireVars>>

completeMission(userId, missionId) ==
    \/ /\ userId \notin DOMAIN users
       /\ lastCall' = Call("completeMission", userId, missionId, FALSE)
       /\ UNCHANGED <<users, achievements, profiles, todaysMissions,
                      questionnaireVars>>
    \/ /\ userId \in DOMAIN users
       /\ TotalCompleted < MaxCompleted
       /\ LET rewarded == checkLevelUp(AddReward(users[userId], missionId))
              after == ProgressAfter(users[userId], missionId, achievements)
          IN  /\ users' = [users EXCEPT ![userId] = after]
              /\ achievements' = StampUnlocked(achievements, rewarded, after)
       /\ lastCall' = Call("completeMission", userId, missionId, TRUE)
       /\ UNCHANGED <<profiles, todaysMissions, questionnaireVars>>

\* the promise an async method returns: fulfilled when error is None,
\* rejected with the Error of that message otherwise
Promise(op, userId, error) == [op |-> op, userId |-> userId, error |-> error]

\* mutant: an unknown user gets the dashboard of no missions
getUserDashboardOfAnyUser(userId) ==
    /\ Len(microtasks) < MaxPending
    /\ todaysMissions' = generateDailyMissions(userId)
    /\ microtasks' = Append(microtasks,
           Promise("getUserDashboard", userId, None))
    /\ lastCall' = Call("getUserDashboard", userId, 0, userId \in DOMAIN users)
    /\ UNCHANGED <<users, achievements, profiles, questionnaireVars>>

\* getUserDashboard up to its return: the body has no await
getUserDashboard(userId) ==
    /\ Len(microtasks) < MaxPending
    /\ \/ /\ userId \notin DOMAIN users
          /\ microtasks' = Append(microtasks,
                 Promise("getUserDashboard", userId, "User not found"))
          /\ UNCHANGED todaysMissions
       \/ /\ userId \in DOMAIN users
          /\ todaysMissions' = generateDailyMissions(userId)
          /\ microtasks' = Append(microtasks,
                 Promise("getUserDashboard", userId, None))
    /\ lastCall' = Call("getUserDashboard", userId, 0, userId \in DOMAIN users)
    /\ UNCHANGED <<users, achievements, profiles, questionnaireVars>>

\* mutant: a call made while a completion of the same user is undelivered
\* writes what it read before that completion, and the update is lost
completeMissionAPIOnStaleRead(userId, missionId) ==
    /\ Len(microtasks) < MaxPending
    /\ IF \E i \in 1..Len(microtasks) :
              microtasks[i] = [op |-> "completeMissionAPI",
                               userId |-> userId, error |-> None]
       THEN /\ lastCall' = Call("completeMission", userId, missionId, TRUE)
            /\ UNCHANGED <<users, achievements, profiles, todaysMissions,
                           questionnaireVars>>
       ELSE completeMission(userId, missionId)
    /\ microtasks' = Append(microtasks,
           [op |-> "completeMissionAPI", userId |-> userId,
            error |-> IF lastCall'.result THEN None
                      ELSE "Failed to complete mission"])

\* completeMissionAPI up to its return: the body has no await
completeMissionAPI(userId, missionId) ==
    /\ Len(microtasks) < MaxPending
    /\ completeMission(userId, missionId)
    /\ microtasks' = Append(microtasks,
           Promise("completeMissionAPI", userId,
                   IF lastCall'.result THEN None
                   ELSE "Failed to complete mission"))

CreateUser ==
    \E userId \in UserIds, responses \in SurveyInputs :
        createUser(userId, responses)

\* generateDailyMissions called on the app object; result: the user is known
GenerateDailyMissions ==
    \E userId \in UserIds \cup {UnknownUserId} :
        /\ todaysMissions' = generateDailyMissions(userId)
        /\ lastCall' = Call("generateDailyMissions", userId, 0,
                            userId \in DOMAIN users)
        /\ UNCHANGED <<users, achievements, profiles, microtasks,
                       questionnaireVars>>

\* completeMission called on the app object
CompleteMission ==
    \E userId \in UserIds \cup {UnknownUserId}, missionId \in MissionIds :
        /\ completeMission(userId, missionId)
        /\ UNCHANGED microtasks

\* the async methods are called with a userId of the store or with one
\* that is not in it
GetUserDashboard ==
    \E userId \in DOMAIN users \cup {UnknownUserId} : getUserDashboard(userId)

CompleteMissionAPI ==
    \E userId \in DOMAIN users \cup {UnknownUserId},
       missionId \in MissionIds :
        completeMissionAPI(userId, missionId)

\* the job queue hands the oldest promise's outcome to its caller
Deliver ==
    /\ microtasks # <<>>
    /\ microtasks' = Tail(microtasks)
    /\ UNCHANGED <<users, achievements, lastCall, profiles, todaysMissions,
                   questionnaireVars>>

-----------------------------------------------------------------------------
(* FitnessQuestionnaire: ask, askNumber, askChoice *)

\* an answer is the sequence of the characters typed
AnswerChars == {"0", "1", "3", "5", "-", ".", " ", "y"}

AnswerInputs == UNION {[1..n -> AnswerChars] : n \in 0..MaxAnswerLen}

\* numbers are kept in units of 1 / Scale, which is exact for every answer
\* of at most MaxAnswerLen characters
Scale == 10 ^ MaxAnswerLen

Digits == <<"0", "1", "2", "3", "4", "5", "6", "7", "8", "9">>

IsDigit(c) == Includes(Digits, c)

DigitValue(c) == CHOOSE d \in 0..9 : Digits[d + 1] = c

\* parseFloat and parseInt skip leading white space
RECURSIVE DropSpaces(_)
DropSpaces(s) ==
    IF s # <<>> /\ Head(s) = " " THEN DropSpaces(Tail(s)) ELSE s

\* the longest prefix of decimal digits
RECURSIVE DigitPrefix(_)
DigitPrefix(s) ==
    IF s # <<>> /\ IsDigit(Head(s))
    THEN <<Head(s)>> \o DigitPrefix(Tail(s))
    ELSE <<>>

RECURSIVE Decimal(_)
Decimal(ds) ==
    IF ds = <<>> THEN 0
    ELSE Decimal(SubSeq(ds, 1, Len(ds) - 1)) * 10 + DigitValue(ds[Len(ds)])

NaN == [nan |-> TRUE, value |-> 0]

Number(v) == [nan |-> FALSE, value |-> v]

\* parseFloat of an answer over AnswerChars: sign, digits, fraction; what
\* follows the longest such prefix is ignored; the value is in 1 / Scale
parseFloat(answer) ==
    LET t == DropSpaces(answer)
        negative == t # <<>> /\ Head(t) = "-"
        u == IF negative THEN Tail(t) ELSE t
        whole == DigitPrefix(u)
        v == SubSeq(u, Len(whole) + 1, Len(u))
        fraction == IF v # <<>> /\ Head(v) = "."
                    THEN DigitPrefix(Tail(v)) ELSE <<>>
        magnitude == Decimal(whole) * Scale
                     + (Decimal(fraction) * Scale) \div (10 ^ Len(fraction))
    IN  IF whole = <<>> /\ fraction = <<>> THEN NaN
        ELSE Number(IF negative THEN 0 - magnitude ELSE magnitude)

\* parseInt of an answer over AnswerChars: sign and digits; the value is a
\* whole number
parseInt(answer) ==
    LET t == DropSpaces(answer)
        negative == t # <<>> /\ Head(t) = "-"
        u == IF negative THEN Tail(t) ELSE t
        whole == DigitPrefix(u)
    IN  IF whole = <<>> THEN NaN
        ELSE Number(IF negative THEN 0 - Decimal(whole) ELSE Decimal(whole))

\* mutant: the lower bound is not checked
AcceptsNumberBelowMin(num, min, max) ==
    ~num.nan /\ num.value <= max * Scale

\* askNumber: the test that ends its loop; every call gives min and max
AcceptsNumber(num, min, max) ==
    ~num.nan /\ num.value >= min * Scale /\ num.value <= max * Scale

\* askChoice: the test that ends its loop, on parseInt(answer)
AcceptsChoice(parsed, choices) ==
    ~parsed.nan /\ parsed.value - 1 >= 0 /\ parsed.value - 1 < Len(choices)

NumberQuestion(field, min, max) ==
    [field |-> field, kind |-> "number", min |-> min, max |-> max,
     choices |-> <<>>]

ChoiceQuestion(field, choices) ==
    [field |-> field, kind |-> "choice", min |-> 0, max |-> 0,
     choices |-> choices]

TextQuestion(field) ==
    [field |-> field, kind |-> "text", min |-> 0, max |-> 0,
     choices |-> <<>>]

\* the questions of collectBaseline and collectGoals, in the order asked
Questions ==
    <<NumberQuestion("age", 13, 100),
      NumberQuestion("currentWeight", 50, 500),
      NumberQuestion("height", 36, 96),
      ChoiceQuestion("activityLevel",
          <<"sedentary", "lightly_active", "moderately_active",
            "very_active", "extremely_active">>),
      NumberQuestion("workoutFrequency", 0, 14),
      NumberQuestion("workoutDuration", 5, 300),
      ChoiceQuestion("fitnessExperience",
          <<"beginner", "intermediate", "advanced">>),
      NumberQuestion("currentStrengthLevel", 1, 10),
      NumberQuestion("currentEnduranceLevel", 1, 10),
      NumberQuestion("currentFlexibilityLevel", 1, 10),
      NumberQuestion("timeAvailable", 0, 300),
      ChoiceQuestion("budget", <<"none", "low", "moderate", "high">>),
      TextQuestion("hasGym"),
      TextQuestion("hasHome"),
      NumberQuestion("motivation", 1, 10),
      ChoiceQuestion("primaryGoal",
          <<"weight_loss", "muscle_gain", "strength", "endurance",
            "flexibility", "general_fitness">>),
      NumberQuestion("targetWeight", 50, 500),
      NumberQuestion("targetStrengthLevel", 1, 10),
      NumberQuestion("targetEnduranceLevel", 1, 10),
      NumberQuestion("targetFlexibilityLevel", 1, 10),
      NumberQuestion("timeframe", 1, 24),
      ChoiceQuestion("priority", <<"low", "medium", "high">>)>>

Assignment(field, value) == [field |-> field, value |-> value]

\* the collector before the first question: asking is the position in
\* Questions, invalid the wrong answers in a row to that question, rejected
\* the wrong answers given before the last accepted one, assigned the
\* fields the last answer has set
NewCollector ==
    [asking |-> 1, invalid |-> 0, rejected |-> 0, hasGym |-> FALSE,
     assigned |-> <<>>]

\* the loop of askNumber or askChoice goes round: log and ask again
Reprompt(c) == [c EXCEPT !.invalid = @ + 1, !.assigned = <<>>]

\* the answer is returned and the collector goes on to the question at
\* position next
Returns(c, next, assignments) ==
    [c EXCEPT !.asking = next, !.invalid = 0, !.rejected = c.invalid,
              !.assigned = assignments]

\* one answer to askNumber: the workoutFrequency decides whether the
\* workoutDuration is asked for or set to 0
AfterNumber(c, answer) ==
    LET q == Questions[c.asking]
        num == parseFloat(answer)
    IN  IF ~AcceptsNumber(num, q.min, q.max) THEN Reprompt(c)
        ELSE IF q.field = "workoutFrequency" /\ ~(num.value > 0)
             THEN Returns(c, c.asking + 2,
                          <<Assignment(q.field, num.value),
                            Assignment("workoutDuration", 0)>>)
             ELSE Returns(c, c.asking + 1, <<Assignment(q.field, num.value)>>)

\* one answer to askChoice: the primaryGoal decides whether the
\* targetWeight is asked for
AfterChoice(c, answer) ==
    LET q == Questions[c.asking]
        parsed == parseInt(answer)
    IN  IF ~AcceptsChoice(parsed, q.choices) THEN Reprompt(c)
        ELSE LET choice == q.choices[parsed.value]
             IN  IF /\ q.field = "primaryGoal"
                    /\ choice \notin {"weight_loss", "muscle_gain"}
                 THEN Returns(c, c.asking + 2,
                              <<Assignment(q.field, choice)>>)
                 ELSE Returns(c, c.asking + 1,
                              <<Assignment(q.field, choice)>>)

\* one answer to ask: the two y/n answers give the equipment list
AfterText(c, answer) ==
    LET q == Questions[c.asking]
        yes == answer = <<"y">>
    IN  IF q.field = "hasGym"
        THEN [Returns(c, c.asking + 1, <<>>) EXCEPT !.hasGym = yes]
        ELSE Returns(c, c.asking + 1,
                     <<Assignment("equipment", EquipmentOf(c.hasGym, yes))>>)

Asking(kind) ==
    /\ collector.asking <= Len(Questions)
    /\ Questions[collector.asking].kind = kind

AskNumber ==
    /\ Asking("number")
    /\ \E answer \in AnswerInputs :
           /\ collector' = AfterNumber(collector, answer)
           /\ collector'.invalid <= MaxInvalid
    /\ UNCHANGED <<pc, baseline, goals, missions, plan, rl, logged, appVars>>

AskChoice ==
    /\ Asking("choice")
    /\ \E answer \in AnswerInputs :
           /\ collector' = AfterChoice(collector, answer)
           /\ collector'.invalid <= MaxInvalid
    /\ UNCHANGED <<pc, baseline, goals, missions, plan, rl, logged, appVars>>

Ask ==
    /\ Asking("text")
    /\ \E answer \in AnswerInputs : collector' = AfterText(collector, answer)
    /\ UNCHANGED <<pc, baseline, goals, missions, plan, rl, logged, appVars>>

-----------------------------------------------------------------------------
(* FitnessQuestionnaire: run *)

CollectBaseline ==
    /\ pc = "collectBaseline"
    /\ \E b \in BaselineInputs : baseline' = b
    /\ pc' = "collectGoals"
    /\ UNCHANGED <<goals, missions, plan, rl, logged, collector, appVars>>

CollectGoals ==
    /\ pc = "collectGoals"
    /\ \E g \in GoalsInputs : goals' = g
    /\ pc' = "displayResults"
    /\ UNCHANGED <<baseline, missions, plan, rl, logged, collector, appVars>>

DisplayResults ==
    /\ pc = "displayResults"
    /\ missions' = CandidateMissions(baseline, goals)
    /\ plan' = generateMissions(baseline, goals)
    /\ logged' = "report"
    /\ pc' = "close"
    /\ UNCHANGED <<baseline, goals, rl, collector, appVars>>

\* an awaited collectBaseline or collectGoals rejects, or displayResults
\* throws: control goes to the catch clause
Throw ==
    /\ pc \in {"collectBaseline", "collectGoals", "displayResults"}
    /\ pc' = "catch"
    /\ UNCHANGED <<baseline, goals, missions, plan, rl, logged, collector,
                   appVars>>

\* mutant: no finally clause, the error leaves run with the stream open
CatchWithoutFinally ==
    /\ pc = "catch"
    /\ logged' = "error"
    /\ pc' = "done"
    /\ UNCHANGED <<baseline, goals, missions, plan, rl, collector, appVars>>

\* catch (error): console.error
Catch ==
    /\ pc = "catch"
    /\ logged' = "error"
    /\ pc' = "close"
    /\ UNCHANGED <<baseline, goals, missions, plan, rl, collector, appVars>>

\* finally: rl.close(); then run's promise is fulfilled ("done")
Close ==
    /\ pc = "close"
    /\ rl' = "closed"
    /\ pc' = "done"
    /\ UNCHANGED <<baseline, goals, missions, plan, logged, collector,
                   appVars>>

QuestionnaireInit ==
    /\ pc = "collectBaseline"
    /\ baseline = None
    /\ goals = None
    /\ missions = <<>>
    /\ plan = <<>>
    /\ rl = "open"
    /\ logged = None
    /\ collector = NewCollector

AppInit ==
    /\ users = <<>>
    /\ achievements = initializeAchievements
    /\ lastCall = NoCall
    /\ profiles = <<>>
    /\ todaysMissions = <<>>
    /\ microtasks = <<>>

Init == QuestionnaireInit /\ AppInit

QuestionnaireNext == CollectBaseline \/ CollectGoals \/ DisplayResults \/ Close

QuestionnaireSpec == Init /\ [][QuestionnaireNext]_vars

\* run with the paths through its catch clause
RunNext == QuestionnaireNext \/ Throw \/ Catch

RunSpec == Init /\ [][RunNext]_vars

\* generateDailyMissions as a function of the stored user: the store holds
\* one user, at some level and with the baseline and goals of some survey
DailyInit ==
    /\ QuestionnaireInit
    /\ \E level \in 1..MaxDailyLevel, responses \in DailySurveyInputs :
           /\ users = [u \in {1} |-> [NewProgress EXCEPT !.level = level]]
           /\ profiles = [u \in {1} |-> NewProfile(responses)]
    /\ achievements = initializeAchievements
    /\ lastCall = NoCall
    /\ todaysMissions = <<>>
    /\ microtasks = <<>>

DailyNext == GenerateDailyMissions

DailySpec == DailyInit /\ [][DailyNext]_vars

\* collectBaseline and collectGoals answer by answer
AskNext == AskNumber \/ AskChoice \/ Ask

AskSpec == Init /\ [][AskNext]_vars

AppNext == CreateUser \/ GenerateDailyMissions \/ CompleteMission

AppSpec == Init /\ [][AppNext]_vars

\* the async methods called by concurrent clients of a store that holds
\* two users, as two createUser calls have left it; each call runs to its
\* return, and the promises are delivered later, oldest first
ApiInit ==
    /\ QuestionnaireInit
    /\ users = [u \in {1, 2} |-> NewProgress]
    /\ profiles = [u \in {1, 2} |-> NewProfile(exampleResponses)]
    /\ achievements = initializeAchievements
    /\ lastCall = Call("createUser", 2, 0, TRUE)
    /\ todaysMissions = <<>>
    /\ microtasks = <<>>

ApiNext == GetUserDashboard \/ CompleteMissionAPI \/ Deliver

ApiSpec == ApiInit /\ [][ApiNext]_vars

\* completeMission as a function of the stored record: the store holds one
\* user, whose record createUser and getUser hand out by reference
RecordInputs ==
    {[level |-> l, xp |-> x, coins |-> 100, streaks |-> <<>>,
      completedMissions |-> h[1], unlockedAchievements |-> h[2]] :
        l \in 1..MaxRecordLevel, x \in {10 * k : k \in 0..MaxRecordXpTens},
        h \in {<<(<<>>), (<<>>)>>,
               <<(<<1, 1>>), (<<"first_mission">>)>>,
               <<(<<1>>), (<<"first_mission", "fitness_fanatic",
                            "level_10">>)>>}}

RecordInit ==
    /\ QuestionnaireInit
    /\ \E p \in RecordInputs : users = [u \in {1} |-> p]
    /\ achievements = initializeAchievements
    /\ lastCall = NoCall
    /\ profiles = [u \in {1} |-> NewProfile(exampleResponses)]
    /\ todaysMissions = <<>>
    /\ microtasks = <<>>

RecordNext == CompleteMission

RecordSpec == RecordInit /\ [][RecordNext]_vars

-----------------------------------------------------------------------------
(* FitnessQuestionnaire: what the properties below are stated with *)

\* displayResults has called generateMissions
Generated == pc \in {"close", "done"}

Budget == Tenths(baseline.timeAvailable)

\* the sum of estimatedTime over a list, in tenths of a minute
RECURSIVE TotalTime(_)
TotalTime(ms) ==
    IF Len(ms) = 0 THEN 0
    ELSE TotalTime(SubSeq(ms, 1, Len(ms) - 1)) + ms[Len(ms)].estimatedTime

Ids(ms) == [i \in 1..Len(ms) |-> ms[i].id]

Categories(ms) == {ms[i].category : i \in 1..Len(ms)}

OneMissionPerCategory(ms) ==
    \A i, j \in 1..Len(ms) : ms[i].category = ms[j].category => i = j

InPlan(m) == \E i \in 1..Len(plan) : plan[i] = m

\* the missions in the order prioritizeMissions scans them when over budget
Sorted == SortByPriority(missions, OrderFor(goals.primaryGoal))

\* the running total when the scan reaches each position of a scanned
\* list: the time of the missions before it that are in the plan
RunningTotals(scanned) ==
    LET run[i \in 1..Len(scanned)] ==
            IF i = 1 THEN 0
            ELSE run[i - 1]
                 + (IF InPlan(scanned[i - 1])
                    THEN scanned[i - 1].estimatedTime ELSE 0)
    IN  run

\* the category orders as the specification lists them
StatedOrder(primaryGoal) ==
    CASE primaryGoal = "weight_loss" ->
             <<"cardio", "strength", "recovery", "flexibility">>
      [] primaryGoal \in {"muscle_gain", "strength"} ->
             <<"strength", "recovery", "flexibility", "cardio">>
      [] primaryGoal = "endurance" ->
             <<"cardio", "flexibility", "recovery", "strength">>
      [] primaryGoal = "flexibility" ->
             <<"flexibility", "recovery", "strength", "cardio">>
      [] OTHER -> <<"strength", "cardio", "flexibility", "recovery">>

Position(order, category) ==
    CHOOSE i \in 1..Len(order) : order[i] = category

InOrder(ms, order) ==
    /\ \A i \in 1..Len(ms) : Includes(order, ms[i].category)
    /\ \A i, j \in 1..Len(ms) :
           i < j => Position(order, ms[i].category)
                        < Position(order, ms[j].category)

GenerationOrder == <<"strength", "cardio", "flexibility", "recovery">>

\* a primaryGoal that is none of the six
UnrecognizedGoal == "unrecognized"

-----------------------------------------------------------------------------
(* C1: when the candidate missions' estimatedTime sum exceeds
   baseline.timeAvailable, the list generateMissions returns (the output of
   prioritizeMissions) has a total estimatedTime of at most
   baseline.timeAvailable. *)
C1_PlanWithinBudget ==
    (Generated /\ TotalTime(missions) > Budget) => TotalTime(plan) <= Budget

\* an over-budget list of which some missions are kept and some dropped
C1_Witness ==
    /\ Generated
    /\ TotalTime(missions) > Budget
    /\ plan # <<>>
    /\ Len(plan) < Len(missions)

(* C2 as stated: in the over-budget case the output is the longest prefix of
   the priority-sorted list whose total fits: the first mission that would
   push the running total above timeAvailable and every mission after it
   are dropped. *)
C2_AsStated_PrefixTruncation ==
    (Generated /\ TotalTime(missions) > Budget) =>
        \E k \in 0..Len(Sorted) :
            /\ plan = SubSeq(Sorted, 1, k)
            /\ k < Len(Sorted) =>
                   TotalTime(SubSeq(Sorted, 1, k + 1)) > Budget

(* C2 amended: in the over-budget case prioritizeMissions is a greedy filter:
   scanning the missions in priority-sorted order, a mission is kept exactly
   when the time of the missions kept before it plus its own estimatedTime
   is at most timeAvailable; a mission that does not fit is dropped and the
   scan goes on, so the output is the sorted list with the dropped missions
   left out (a subsequence, not always a prefix). *)
C2_GreedyFilter ==
    (Generated /\ TotalTime(missions) > Budget) =>
        LET sorted == Sorted
            currentTime == RunningTotals(sorted)
        IN  /\ plan = SelectSeq(sorted, InPlan)
            /\ \A i \in 1..Len(sorted) :
                   InPlan(sorted[i]) <=>
                       currentTime[i] + sorted[i].estimatedTime <= Budget

\* a mission is dropped and a later, smaller one that still fits is kept
C2_Witness ==
    /\ Generated
    /\ TotalTime(missions) > Budget
    /\ \E i, j \in 1..Len(Sorted) :
           /\ i < j
           /\ ~InPlan(Sorted[i])
           /\ InPlan(Sorted[j])
           /\ Sorted[j].estimatedTime < Sorted[i].estimatedTime

(* C3: when the candidate missions' estimatedTime sum is at most
   baseline.timeAvailable, the list is returned unchanged, in generation
   order (strength, cardio, flexibility, recovery), whatever primaryGoal
   is. *)
C3_UnderBudgetUnchanged ==
    (Generated /\ TotalTime(missions) <= Budget) =>
        /\ plan = missions
        /\ InOrder(plan, GenerationOrder)

\* a list within budget that sorting by primaryGoal would have reordered
C3_Witness ==
    /\ Generated
    /\ TotalTime(missions) <= Budget
    /\ Len(plan) >= 2
    /\ Sorted # missions

(* C4: in the over-budget case the returned missions appear in the category
   order of goals.primaryGoal as the specification lists it; a primaryGoal
   that is none of the six gets the general_fitness order. *)
C4_PlanInPriorityOrder ==
    (Generated /\ TotalTime(missions) > Budget) =>
        /\ InOrder(plan, StatedOrder(goals.primaryGoal))
        /\ InOrder(prioritizeMissions(missions, baseline.timeAvailable,
                                      UnrecognizedGoal),
                   StatedOrder("general_fitness"))

\* an over-budget list whose plan is not in generation order
C4_Witness ==
    /\ Generated
    /\ TotalTime(missions) > Budget
    /\ Len(plan) >= 2
    /\ ~InOrder(plan, GenerationOrder)

(* C5: generateMissions returns a strength mission only if
   targetStrengthLevel > currentStrengthLevel, a cardio mission only if
   targetEnduranceLevel > currentEnduranceLevel or primaryGoal is
   weight_loss, a flexibility mission only if targetFlexibilityLevel >
   currentFlexibilityLevel, a recovery mission only if fitnessExperience is
   beginner or more than one of these three rules fired; at most one
   mission per category, and never a nutrition mission. *)
C5_OnlyTriggeredCategories ==
    Generated =>
        LET strength == goals.targetStrengthLevel > baseline.currentStrengthLevel
            cardio == \/ goals.targetEnduranceLevel
                             > baseline.currentEnduranceLevel
                      \/ goals.primaryGoal = "weight_loss"
            flexibility == goals.targetFlexibilityLevel
                               > baseline.currentFlexibilityLevel
            fired == Cardinality({r \in {<<1, strength>>, <<2, cardio>>,
                                         <<3, flexibility>>} : r[2]})
            recovery == baseline.fitnessExperience = "beginner" \/ fired > 1
        IN  \A ms \in {missions, plan} :
                /\ "strength" \in Categories(ms) => strength
                /\ "cardio" \in Categories(ms) => cardio
                /\ "flexibility" \in Categories(ms) => flexibility
                /\ "recovery" \in Categories(ms) => recovery
                /\ Categories(ms) \subseteq
                       {"strength", "cardio", "flexibility", "recovery"}
                /\ OneMissionPerCategory(ms)

\* a recovery mission returned to a user who is no beginner, with a rule
\* that did not fire
C5_Witness ==
    /\ Generated
    /\ baseline.fitnessExperience # "beginner"
    /\ "recovery" \in Categories(plan)
    /\ "flexibility" \notin Categories(missions)
    /\ Len(plan) = 3

IsExample == Generated /\ baseline = ExampleBaseline /\ goals = ExampleGoals

ExampleCandidates ==
    /\ Ids(missions) = <<"strength_002", "cardio_001", "recovery_001">>
    /\ [i \in 1..Len(missions) |-> missions[i].estimatedTime]
           = <<Tenths(20), Tenths(18), Tenths(10)>>
    /\ missions[1].equipment = <<"bodyweight_only">>

(* C6 as stated: for the worked example the candidates are the bodyweight
   strength mission (20 min), the cardio mission (18 min) and the recovery
   mission (10 min), and the plan returned is exactly [cardio]. *)
C6_AsStated_OnlyCardio ==
    IsExample => (ExampleCandidates /\ Ids(plan) = <<"cardio_001">>)

(* C6 amended: for the worked example the candidates are the bodyweight
   strength mission (20 min), the cardio mission (18 min) and the recovery
   mission (10 min), with no flexibility mission, and the plan returned is
   exactly [cardio, recovery] (28 min): strength is dropped because
   18 + 20 > 30, recovery is kept because 18 + 10 <= 30. *)
C6_ExamplePlan ==
    IsExample =>
        /\ ExampleCandidates
        /\ Ids(plan) = <<"cardio_001", "recovery_001">>
        /\ TotalTime(plan) = Tenths(28)

\* the worked example has been generated
C6_Witness == IsExample /\ plan # <<>>

-----------------------------------------------------------------------------
(* HealthVitalityApp: what the properties below are stated with *)

\* this step is a completeMission(u, ...) call that returned true
CompletedBy(u) ==
    /\ lastCall'.op = "completeMission"
    /\ lastCall'.userId = u
    /\ lastCall'.result = TRUE

\* the xpReward of the achievements that are unlocked in q and not in p
UnlockedXp(p, q) ==
    LET sum[i \in 0..Len(achievements)] ==
            IF i = 0 THEN 0
            ELSE sum[i - 1]
                 + (IF /\ Includes(q.unlockedAchievements, achievements[i].id)
                       /\ ~Includes(p.unlockedAchievements, achievements[i].id)
                    THEN achievements[i].xpReward ELSE 0)
    IN  sum[Len(achievements)]

\* the coins of the level-ups between p and q: newLevel * 10 for each
LevelUpBonus(p, q) ==
    LET sum[l \in p.level..q.level] ==
            IF l = p.level THEN 0 ELSE sum[l - 1] + l * 10
    IN  sum[q.level]

SucceededFor(u) ==
    /\ lastCall.op = "completeMission"
    /\ lastCall.userId = u
    /\ lastCall.result = TRUE

(* C7: every successful completeMission(userId, missionId) appends missionId
   to completedMissions (the length grows by exactly 1) and adds a flat 20
   to xp and a flat 10 to coins; the 20 is already in xp when the level-up
   check runs, and whatever else the call adds to xp and coins is the
   reward of the achievements it unlocks and the level-up bonus. *)
C7_FlatRewardAndLog ==
    [][\A u \in DOMAIN users :
           CompletedBy(u) =>
               LET p == users[u]
                   q == users'[u]
               IN  /\ q.completedMissions
                          = Append(p.completedMissions, lastCall'.missionId)
                   /\ Len(q.completedMissions) = Len(p.completedMissions) + 1
                   /\ q.xp = p.xp + 20 + UnlockedXp(p, q)
                   /\ q.coins = p.coins + 10 + LevelUpBonus(p, q)
                   /\ q.level > p.level <=> p.xp + 20 >= p.level * 100]_vars

\* a user's second completion has been logged, with no level-up at the
\* first one and one at the second
C7_Witness ==
    \E u \in DOMAIN users :
        /\ SucceededFor(u)
        /\ Len(users[u].completedMissions) = 2
        /\ users[u].completedMissions[2] = lastCall.missionId
        /\ users[u].xp = 890
        /\ users[u].coins = 100 + 10 + 10 + 20

(* C8: the level-up check runs once per completeMission call: the level
   rises by 0 or by exactly 1; it rises iff xp plus the flat 20 is at least
   oldLevel * 100, and then coins gain newLevel * 10; a user whose xp
   already covers several levels is left with xp >= level * 100 after the
   call. *)
C8_OneLevelPerCall ==
    [][\A u \in DOMAIN users :
           CompletedBy(u) =>
               LET p == users[u]
                   q == users'[u]
                   rises == p.xp + 20 >= p.level * 100
               IN  /\ q.level \in {p.level, p.level + 1}
                   /\ q.level = p.level + 1 <=> rises
                   /\ rises => q.coins = p.coins + 10 + q.level * 10
                   /\ ~rises => q.coins = p.coins + 10
                   /\ p.xp + 20 >= (p.level + 1) * 100 =>
                          /\ q.level = p.level + 1
                          /\ q.xp >= q.level * 100]_vars

\* a user whose xp covers several levels has gone up one level and is
\* still owed more
C8_Witness ==
    \E u \in DOMAIN users :
        /\ SucceededFor(u)
        /\ users[u].level = 3
        /\ Len(users[u].completedMissions) = 3
        /\ users[u].xp >= (users[u].level + 1) * 100

(* C9: within one completeMission call the level-up check comes before the
   achievement check: the level after the call is determined by the level
   and xp + 20 before it alone, and the xp of an achievement unlocked in
   the call is not used for a level-up in that call, also when it takes xp
   over the threshold. *)
C9_AchievementXpNotLevelledInCall ==
    [][\A u \in DOMAIN users :
           CompletedBy(u) =>
               LET p == users[u]
                   q == users'[u]
                   gained == UnlockedXp(p, q)
               IN  /\ q.level = IF p.xp + 20 >= p.level * 100
                                THEN p.level + 1 ELSE p.level
                   /\ (/\ gained > 0
                       /\ p.xp + 20 < p.level * 100
                       /\ p.xp + 20 + gained >= p.level * 100) =>
                          /\ q.level = p.level
                          /\ q.xp = p.xp + 20 + gained
                          /\ q.xp >= q.level * 100]_vars

\* a first completion has unlocked achievements whose xp covers the next
\* level, and the user is still at level 1
C9_Witness ==
    \E u \in DOMAIN users :
        /\ SucceededFor(u)
        /\ Len(users[u].completedMissions) = 1
        /\ users[u].unlockedAchievements # <<>>
        /\ users[u].level = 1
        /\ users[u].xp >= 100

\* the three achievements whose requirements pass at any completion
AlreadyUnlocked(p) ==
    \A id \in {"first_mission", "fitness_fanatic", "level_10"} :
        Includes(p.unlockedAchievements, id)

(* C10 as stated: a user at level 1 with xp = 90 who completes one mission
   ends that call with xp = 110, level = 2, and a level-up bonus of 20
   coins added to coins. *)
C10_AsStated_Xp110 ==
    [][\A u \in DOMAIN users :
           (CompletedBy(u) /\ users[u].level = 1 /\ users[u].xp = 90) =>
               /\ users'[u].xp = 110
               /\ users'[u].level = 2
               /\ users'[u].coins = users[u].coins + 10 + 20]_vars

(* C10 amended: a user at level 1 with xp = 90 who completes one mission
   ends that call with level = 2, the flat 10 coins and a level-up bonus of
   20 coins (newLevel * 10) added to coins, and xp = 110 plus the xpReward
   of every achievement the call unlocks: exactly 110 when first_mission,
   fitness_fanatic and level_10 were unlocked before, 960 for a record with
   no achievement unlocked. *)
C10_LevelUpExample ==
    [][\A u \in DOMAIN users :
           (CompletedBy(u) /\ users[u].level = 1 /\ users[u].xp = 90) =>
               LET p == users[u]
                   q == users'[u]
               IN  /\ q.level = 2
                   /\ q.coins = p.coins + 10 + 20
                   /\ q.xp = 110 + UnlockedXp(p, q)
                   /\ AlreadyUnlocked(p) => q.xp = 110
                   /\ p.unlockedAchievements = <<>> => q.xp = 960]_vars

\* the record at level 1 with xp = 90 and 100 coins has completed a mission
C10_Witness ==
    \E u \in DOMAIN users :
        /\ SucceededFor(u)
        /\ users[u].level = 2
        /\ users[u].xp = 110
        /\ users[u].coins = 130

-----------------------------------------------------------------------------
(* HealthVitalityApp: achievements *)

NoDuplicates(seq) ==
    \A i, j \in 1..Len(seq) : seq[i] = seq[j] => i = j

\* the xpReward of every achievement whose id is in unlocked, each counted
\* once
RECURSIVE RewardsFrom(_, _, _)
RewardsFrom(unlocked, achs, i) ==
    IF i > Len(achs) THEN 0
    ELSE (IF Includes(unlocked, achs[i].id) THEN achs[i].xpReward ELSE 0)
         + RewardsFrom(unlocked, achs, i + 1)

RewardsOf(p) == RewardsFrom(p.unlockedAchievements, achievements, 1)

(* C11: after a user's first successful completeMission, first_mission is
   in unlockedAchievements and stays there over every later call; no
   achievement id appears twice in unlockedAchievements; each achievement's
   xpReward is added to xp exactly once, so xp is the flat 20 per logged
   completion plus the reward of each unlocked id counted once. *)
C11_UnlockedOnce ==
    /\ [](\A u \in DOMAIN users :
              LET p == users[u]
              IN  /\ Len(p.completedMissions) >= 1 =>
                         Includes(p.unlockedAchievements, "first_mission")
                  /\ NoDuplicates(p.unlockedAchievements)
                  /\ p.xp = 20 * Len(p.completedMissions) + RewardsOf(p))
    /\ [][\A u \in DOMAIN users :
              /\ u \in DOMAIN users'
              /\ \A i \in 1..Len(users[u].unlockedAchievements) :
                     /\ i <= Len(users'[u].unlockedAchievements)
                     /\ users'[u].unlockedAchievements[i]
                            = users[u].unlockedAchievements[i]]_vars

\* a user has completed missions after the one that unlocked first_mission
C11_Witness ==
    \E u \in DOMAIN users :
        /\ SucceededFor(u)
        /\ Len(users[u].completedMissions) = 3
        /\ users[u].unlockedAchievements[1] = "first_mission"
        /\ users[u].xp = 60 + 850

\* the requirement kinds the switch of checkAchievements has a case for
CheckedKinds == {"total_missions", "streak"}

(* C12: in checkAchievements only total_missions and streak requirements
   can block an unlock; an achievement with requirements of other kinds
   only (category_progress, goal_reached) has its requirements met for
   every user.  The first successful completeMission of a freshly created
   user unlocks first_mission, fitness_fanatic and level_10 in that call,
   not week_warrior, and leaves xp = 20 + 50 + 300 + 500 = 870 at
   level 1. *)
C12_UncheckedKindsPass ==
    [][/\ \A i \in 1..Len(achievements), u \in DOMAIN users :
              (\A k \in 1..Len(achievements[i].requirements) :
                   achievements[i].requirements[k].type \notin CheckedKinds)
                  => requirementsMet(users[u], achievements[i])
       /\ \A u \in DOMAIN users :
              (CompletedBy(u) /\ users[u] = NewProgress) =>
                  /\ users'[u].unlockedAchievements
                         = <<"first_mission", "fitness_fanatic", "level_10">>
                  /\ users'[u].xp = 870
                  /\ users'[u].level = 1]_vars

\* a freshly created user has completed a first mission
C12_Witness ==
    \E u \in DOMAIN users :
        /\ SucceededFor(u)
        /\ Len(users[u].completedMissions) = 1
        /\ Len(users[u].unlockedAchievements) = 3
        /\ ~Includes(users[u].unlockedAchievements, "week_warrior")
        /\ users[u].xp = 870

(* C13: completeMission(userId, ...) changes only the progress record of
   the user userId: every other user's level, xp, coins, streaks,
   completedMissions and unlockedAchievements are the same before and after
   the call, and no user is added to or removed from the store. *)
C13_OtherUsersUntouched ==
    [][lastCall'.op = "completeMission" =>
           /\ DOMAIN users' = DOMAIN users
           /\ \A v \in DOMAIN users :
                  v # lastCall'.userId =>
                      /\ users'[v].level = users[v].level
                      /\ users'[v].xp = users[v].xp
                      /\ users'[v].coins = users[v].coins
                      /\ users'[v].streaks = users[v].streaks
                      /\ users'[v].completedMissions
                             = users[v].completedMissions
                      /\ users'[v].unlockedAchievements
                             = users[v].unlockedAchievements]_vars

\* one user has completed a second mission while another user, who has
\* completed one, is in the store
C13_Witness ==
    \E u, v \in DOMAIN users :
        /\ u # v
        /\ SucceededFor(u)
        /\ Len(users[u].completedMissions) = 2
        /\ Len(users[v].completedMissions) = 1
        /\ users[v].xp = 870

(* C14 as stated: the achievement definitions are read-only configuration
   shared by all users: no createUser, generateDailyMissions or
   completeMission call changes any field of any entry of the
   achievements list; an unlock is recorded only in the unlocking user's
   own unlockedAchievements, so no entry of the list carries a trace of
   a user's unlock. *)
C14_AsStated_DefinitionsReadOnly ==
    [][/\ achievements' = achievements
       /\ \A i \in 1..Len(achievements') :
              achievements'[i].unlockedAt = None]_vars

-----------------------------------------------------------------------------
(* HealthVitalityApp: the async methods *)

\* this step is a call of an async method: it has queued its promise
Called ==
    /\ Len(microtasks') = Len(microtasks) + 1
    /\ SubSeq(microtasks', 1, Len(microtasks)) = microtasks

\* the promise the call of this step returned
Returned == microtasks'[Len(microtasks')]

StoreUnchanged ==
    /\ users' = users
    /\ profiles' = profiles
    /\ achievements' = achievements

(* C15: for a userId that is not in the store, getUserDashboard fails with
   a 'User not found' error, completeMission returns false and
   completeMissionAPI fails with its completion-failure error, and the
   store and every existing user's record are left unchanged; the failure
   affects only that request: a call for a known user, whatever failed
   before it, is fulfilled, a dashboard call with the user's daily missions
   and the store unchanged, a completion call with the user's record
   updated as completeMission updates it. *)
C15_UnknownUserFailsAlone ==
    [][Called =>
           LET userId == Returned.userId
               isDashboard == Returned.op = "getUserDashboard"
           IN  /\ userId \notin DOMAIN users =>
                      /\ StoreUnchanged
                      /\ todaysMissions' = todaysMissions
                      /\ isDashboard => Returned.error = "User not found"
                      /\ ~isDashboard =>
                             /\ lastCall'.op = "completeMission"
                             /\ lastCall'.result = FALSE
                             /\ Returned.error = "Failed to complete mission"
               /\ userId \in DOMAIN users =>
                      /\ Returned.error = None
                      /\ isDashboard =>
                             /\ StoreUnchanged
                             /\ todaysMissions' = generateDailyMissions(userId)
                      /\ ~isDashboard =>
                             /\ lastCall'.result = TRUE
                             /\ users' = [users EXCEPT ![userId] =
                                   ProgressAfter(users[userId],
                                                 lastCall'.missionId,
                                                 achievements)]]_vars

\* a dashboard request for an unknown user has failed, and after it a
\* completion for a known user has gone through
C15_Witness ==
    /\ Len(microtasks) = 2
    /\ microtasks[1] = Promise("getUserDashboard", UnknownUserId,
                               "User not found")
    /\ microtasks[2].op = "completeMissionAPI"
    /\ microtasks[2].error = None
    /\ users[microtasks[2].userId].xp = 870

\* the completions of user u whose promise is fulfilled and not yet
\* delivered
PendingCompletions(u) ==
    {i \in 1..Len(microtasks) :
        microtasks[i] = Promise("completeMissionAPI", u, None)}

(* C16: completeMissionAPI calls for one user do not interleave their
   read-modify-write of xp, coins and completedMissions: each call, also
   one made while earlier calls for the same user are not yet delivered,
   leaves the record completeMission computes from the record the previous
   call left, with one more log entry and one more flat reward, so the
   final progress is that of the calls run one after another and k
   successful calls give k log entries and k flat rewards. *)
C16_CallsRunOneAfterAnother ==
    /\ [](\A u \in DOMAIN users :
              /\ Cardinality(PendingCompletions(u))
                     <= Len(users[u].completedMissions)
              /\ users[u].xp = 20 * Len(users[u].completedMissions)
                               + RewardsOf(users[u]))
    /\ [][(/\ Called
           /\ Returned.op = "completeMissionAPI"
           /\ Returned.error = None) =>
              LET u == Returned.userId
                  p == users[u]
                  q == users'[u]
              IN  /\ users' = [users EXCEPT ![u] =
                         ProgressAfter(p, lastCall'.missionId, achievements)]
                  /\ q.completedMissions
                         = Append(p.completedMissions, lastCall'.missionId)
                  /\ q.xp = p.xp + 20 + UnlockedXp(p, q)
                  /\ q.coins = p.coins + 10 + LevelUpBonus(p, q)]_vars

\* two completions of one user are both undelivered, and both are in the
\* log and rewarded
C16_Witness ==
    \E u \in DOMAIN users :
        /\ PendingCompletions(u) = {1, 2}
        /\ Len(users[u].completedMissions) = 2
        /\ users[u].xp = 890
        /\ users[u].coins = 100 + 10 + 10 + 20

-----------------------------------------------------------------------------
(* FitnessQuestionnaire: run *)

\* run has returned: its promise is fulfilled
Left == pc = "done"

(* C17: in run the input stream is closed on every path that leaves run,
   after displayResults on the normal path and after the error is logged
   when collectBaseline, collectGoals or displayResults throws; rl.close()
   comes after the last prompt and after the report or the error log, and
   run ends with its promise fulfilled, the error not propagated. *)
C17_ClosedOnEveryPath ==
    /\ [](Left => rl = "closed" /\ logged \in {"report", "error"})
    /\ [](pc = "catch" => rl = "open")
    /\ [][/\ rl' # rl =>
              /\ rl = "open" /\ rl' = "closed"
              /\ logged \in {"report", "error"}
              /\ pc' = "done"
          /\ pc = "catch" => logged' = "error" /\ pc' = "close"
          /\ rl = "closed" =>
                 pc' \notin {"collectBaseline", "collectGoals",
                             "displayResults"}]_vars

\* run has returned after a throw: the error is logged, no plan was
\* generated and the stream is closed
C17_Witness ==
    /\ Left
    /\ logged = "error"
    /\ rl = "closed"
    /\ plan = <<>>

-----------------------------------------------------------------------------
(* FitnessQuestionnaire: the answers collected *)

\* the question that asks for a field
QuestionOf(field) ==
    Questions[CHOOSE i \in 1..Len(Questions) : Questions[i].field = field]

EquipmentLists ==
    {<<"gym_access">>, <<"home_equipment">>,
     <<"gym_access", "home_equipment">>, <<"bodyweight_only">>}

\* the value is within the bounds, or is one of the choices, that the
\* question for the field is asked with
InDeclaredRange(a) ==
    IF a.field = "equipment" THEN a.value \in EquipmentLists
    ELSE LET q == QuestionOf(a.field)
         IN  IF q.kind = "number"
             THEN a.value >= q.min * Scale /\ a.value <= q.max * Scale
             ELSE Includes(q.choices, a.value)

\* workoutDuration set to 0 without a question, for workoutFrequency 0
SetWithoutQuestion(assigned, i) ==
    /\ i = 2
    /\ assigned[1] = Assignment("workoutFrequency", 0)
    /\ assigned[2] = Assignment("workoutDuration", 0)

(* C18 as stated: askNumber returns only a number within the bounds given
   and askChoice only an offered choice, re-prompting on any other answer,
   so every baseline and goals field lies in its declared range. *)
C18_AsStated_EveryFieldInRange ==
    \A i \in 1..Len(collector.assigned) :
        InDeclaredRange(collector.assigned[i])

(* C18 amended: askNumber returns only a number n with min <= n <= max and
   askChoice only an element of the offered choices; on any other answer
   they ask the same question again and assign nothing, for any number of
   wrong answers in a row.  Every field assigned from their result lies in
   its declared range; workoutDuration is the exception: when
   workoutFrequency is 0 it is not asked for and is set to 0, below the 5
   to 300 of its question. *)
C18_CollectorValidates ==
    /\ [](\A i \in 1..Len(collector.assigned) :
              \/ InDeclaredRange(collector.assigned[i])
              \/ SetWithoutQuestion(collector.assigned, i))
    /\ [][/\ collector'.asking = collector.asking =>
                 /\ collector'.assigned = <<>>
                 /\ collector'.invalid = collector.invalid + 1
          /\ collector'.asking # collector.asking =>
                 /\ collector'.asking > collector.asking
                 /\ collector'.rejected = collector.invalid
                 /\ collector'.invalid = 0
                 /\ \A i \in 1..Len(collector'.assigned) :
                        collector'.assigned[i].field
                            = Questions[collector.asking].field =>
                            InDeclaredRange(collector'.assigned[i])]_vars

\* after two wrong answers in a row, workoutFrequency 0 has been accepted
\* and workoutDuration set to 0
C18_Witness ==
    /\ collector.rejected = 2
    /\ collector.assigned = <<Assignment("workoutFrequency", 0),
                              Assignment("workoutDuration", 0)>>

-----------------------------------------------------------------------------
(* HealthVitalityApp: the daily missions *)

RuleOrder == <<"energy", "fitness", "nutrition", "sleep", "stress">>

\* the condition of the goal rule for a kind of mission
RuleFires(kind, profile) ==
    CASE kind = "energy" ->
             profile.goals.energyLevel.threeMonths
                 > profile.baseline.energyLevel
      [] kind = "fitness" ->
             profile.goals.physicalFitness.threeMonths
                 > profile.baseline.physicalFitness
      [] kind = "nutrition" -> profile.baseline.nutritionQuality < 7
      [] kind = "sleep" -> profile.baseline.sleepQuality < 8
      [] kind = "stress" -> profile.baseline.stressManagement < 7

\* the rules that fire, in the order they are evaluated
Fired(profile) ==
    LET Fires(kind) == RuleFires(kind, profile)
    IN  SelectSeq(RuleOrder, Fires)

\* this step is generateDailyMissions called for userId
GeneratedFor(userId) ==
    /\ lastCall'.op = "generateDailyMissions"
    /\ lastCall'.userId = userId

(* C19: for a known user generateDailyMissions returns exactly
   min(3 + floor(level / 5), 7) missions: the missions of the goal rules
   that fire, in the order energy, fitness, nutrition, sleep, stress, then
   variety missions up to that count; when more rules fire than the count,
   the missions of the later rules are cut off.  For an unknown user it
   returns the empty list. *)
C19_DailyMissionCount ==
    [][\A userId \in UserIds \cup {UnknownUserId} :
           GeneratedFor(userId) =>
               IF userId \notin DOMAIN users THEN todaysMissions' = <<>>
               ELSE LET level == users[userId].level
                        count == IF 3 + (level \div 5) < 7
                                 THEN 3 + (level \div 5) ELSE 7
                        fired == Fired(profiles[userId])
                    IN  /\ Len(todaysMissions') = count
                        /\ \A i \in 1..count :
                               todaysMissions'[i] =
                                   IF i <= Len(fired) THEN fired[i]
                                   ELSE "variety"]_vars

\* all five rules fire for a user below level 5: three missions are
\* returned, and the sleep and stress missions are not among them
C19_Witness ==
    /\ lastCall.op = "generateDailyMissions"
    /\ lastCall.userId \in DOMAIN users
    /\ users[lastCall.userId].level < 5
    /\ Len(Fired(profiles[lastCall.userId])) = 5
    /\ todaysMissions = <<"energy", "fitness", "nutrition">>

(* C20: no operation writes progress.streaks: it is the empty map in every
   reachable state, so the streak of every category reads as 0, the streak
   requirement of week_warrior is never met, and week_warrior is in no
   user's unlockedAchievements after any number of completeMission
   calls. *)
C20_StreaksNeverWritten ==
    \A u \in DOMAIN users :
        /\ DOMAIN users[u].streaks = {}
        /\ StreakOf(users[u], "daily") = 0
        /\ \A i \in 1..Len(achievements) :
               achievements[i].id = "week_warrior" =>
                   /\ ~requirementsMet(users[u], achievements[i])
                   /\ achievements[i].unlockedAt = None
        /\ ~Includes(users[u].unlockedAchievements, "week_warrior")

\* a user has completed every mission the bound allows and has unlocked
\* the other three achievements
C20_Witness ==
    \E u \in DOMAIN users :
        /\ Len(users[u].completedMissions) = MaxCompleted
        /\ Len(users[u].unlockedAchievements) = 3
        /\ DOMAIN users[u].streaks = {}

-----------------------------------------------------------------------------
(* HealthVitalityApp.completeMission: the missionId is not checked *)

\* this step is a completeMission(u, m) call
CalledWith(u, m) ==
    /\ lastCall'.op = "completeMission"
    /\ lastCall'.userId = u
    /\ lastCall'.missionId = m

\* a total_missions requirement of that value
TotalMissions(value) ==
    [type |-> "total_missions", value |-> value, category |-> None]

(* C21: completeMission checks missionId neither against the generated
   missions nor against the completed log: every call for a stored user
   returns true, whatever generateDailyMissions last returned and whether
   or not missionId is already in completedMissions; it appends the id
   (again) and grants the flat 20 xp and 10 coins (again), so the log can
   hold duplicates, and the total_missions count of checkAchievements is
   the length of the log, duplicates included. *)
C21_MissionIdNotChecked ==
    [][\A u \in DOMAIN users, m \in MissionIds :
           CalledWith(u, m) =>
               LET p == users[u]
                   q == users'[u]
               IN  /\ lastCall'.result = TRUE
                   /\ q.completedMissions = Append(p.completedMissions, m)
                   /\ q.xp = p.xp + xpGained + UnlockedXp(p, q)
                   /\ q.coins = p.coins + coinsGained + LevelUpBonus(p, q)
                   /\ Includes(p.completedMissions, m) =>
                          ~NoDuplicates(q.completedMissions)
                   /\ RequirementMet(q, TotalMissions(
                                            Len(p.completedMissions) + 1))]_vars

\* a user has completed the same missionId twice and nothing else, with
\* no mission returned by generateDailyMissions: 20 xp for each call and
\* 50 + 300 + 500 for the three achievements the first call unlocks; 10
\* coins for each call and 20 for the level-up of the second
C21_Witness ==
    \E u \in DOMAIN users, m \in MissionIds :
        /\ SucceededFor(u)
        /\ lastCall.missionId = m
        /\ users[u].completedMissions = <<m, m>>
        /\ users[u].xp = 2 * xpGained + 850
        /\ users[u].coins = 100 + 2 * coinsGained + 20
        /\ todaysMissions = <<>>

=============================================================================
